---- MODULE Spec2Model ----
(***************************************************************************)
(* Model of docs/convert.py: the Excalidraw -> PNG converter.              *)
(*                                                                         *)
(*   excalidraw_to_svg  pure function, modelled as an operator             *)
(*   svg_to_png, convert, main  modelled as a state machine over pc        *)
(*                                                                         *)
(* Numbers.  A JSON number is a Python int (exact, unbounded) or a Python  *)
(* float (binary floating point, round-to-nearest-even).  A number is the  *)
(* record [f |-> is it a float, v |-> its value].  The significand of a    *)
(* float is MantBits bits wide here (53 in IEEE double), so that rounding  *)
(* happens on numbers small enough to enumerate.                           *)
(***************************************************************************)
EXTENDS Integers, Sequences, FiniteSets, TLC

MaxElems == 2
MantBits == 5

(***************************************************************************)
(* Python numbers                                                          *)
(***************************************************************************)
PyInt(n) == [f |-> FALSE, v |-> n]
PyFloat(n) == [f |-> TRUE, v |-> n]

Abs(n) == IF n < 0 THEN -n ELSE n

RECURSIVE Pow2(_)
Pow2(k) == IF k = 0 THEN 1 ELSE 2 * Pow2(k - 1)

\* the spacing of the floats around magnitude a: the least power of two u
\* with a < 2^MantBits * u
RECURSIVE Ulp(_, _)
Ulp(a, u) == IF a < Pow2(MantBits) * u THEN u ELSE Ulp(a, 2 * u)

\* round an exact value to the nearest float, ties to the even significand
RoundEven(n) ==
    LET a == Abs(n)
        u == Ulp(a, 1)
        q == a \div u
        r == a % u
        m == IF 2 * r > u \/ (2 * r = u /\ q % 2 = 1) THEN q + 1 ELSE q
    IN  IF n < 0 THEN -(m * u) ELSE m * u

\* float(a)
ToFloat(a) == IF a.f THEN a.v ELSE RoundEven(a.v)

\* a + b: int + int is exact, anything else is a float addition
Add(a, b) ==
    IF ~a.f /\ ~b.f THEN PyInt(a.v + b.v)
    ELSE PyFloat(RoundEven(ToFloat(a) + ToFloat(b)))

\* a - b
Sub(a, b) ==
    IF ~a.f /\ ~b.f THEN PyInt(a.v - b.v)
    ELSE PyFloat(RoundEven(ToFloat(a) - ToFloat(b)))

\* 2 * (a + b/2): b/2 is a true division, always a float and exact, so the
\* sum is one float addition; kept doubled so that halves stay integers
AddHalf2(a, b) == RoundEven(2 * ToFloat(a) + ToFloat(b))

\* 2 * (b/2)
Half2(b) == ToFloat(b)

\* min(seq), max(seq): the first of the least / greatest elements
RECURSIVE MinFrom(_, _, _)
MinFrom(s, i, m) ==
    IF i > Len(s) THEN m
    ELSE MinFrom(s, i + 1, IF s[i].v < m.v THEN s[i] ELSE m)
min(s) == MinFrom(s, 2, s[1])

RECURSIVE MaxFrom(_, _, _)
MaxFrom(s, i, m) ==
    IF i > Len(s) THEN m
    ELSE MaxFrom(s, i + 1, IF s[i].v > m.v THEN s[i] ELSE m)
max(s) == MaxFrom(s, 2, s[1])

\* dict.get(k, d)
Get(e, k, d) == IF k \in DOMAIN e THEN e[k] ELSE d

(***************************************************************************)
(* excalidraw_to_svg                                                       *)
(***************************************************************************)
padSmall == PyInt(20)
pad == PyInt(40)

\* the markup returned for a document without elements
BlankSvg ==
    [width |-> PyInt(400), height |-> PyInt(300), defs |-> FALSE,
     body |-> << [tag |-> "bg"] >>]

\* e.get('isDeleted') as a truth value
IsDeleted(e) == Get(e, "isDeleted", FALSE)

\* elements = data.get('elements', []); "not elements"
Elements(data) == Get(data, "elements", << >>)
NoLiveElements(data) == \A i \in 1..Len(Elements(data)) : IsDeleted(Elements(data)[i])
NoElements(data) == Elements(data) = << >>

\* xs, ys, ws, hs: the extents of every element, deleted ones included
ExtentsLive(elements) ==
    LET live == SelectSeq(elements, LAMBDA e : ~IsDeleted(e))
        src == IF live = << >> THEN elements ELSE live
    IN  [xs |-> [i \in 1..Len(src) |-> Get(src[i], "x", PyInt(0))],
         ys |-> [i \in 1..Len(src) |-> Get(src[i], "y", PyInt(0))],
         ws |-> [i \in 1..Len(src) |->
                   Add(Get(src[i], "x", PyInt(0)), Get(src[i], "width", PyInt(100)))],
         hs |-> [i \in 1..Len(src) |->
                   Add(Get(src[i], "y", PyInt(0)), Get(src[i], "height", PyInt(50)))]]
Extents(elements) ==
    [xs |-> [i \in 1..Len(elements) |-> Get(elements[i], "x", PyInt(0))],
     ys |-> [i \in 1..Len(elements) |-> Get(elements[i], "y", PyInt(0))],
     ws |-> [i \in 1..Len(elements) |->
               Add(Get(elements[i], "x", PyInt(0)), Get(elements[i], "width", PyInt(100)))],
     hs |-> [i \in 1..Len(elements) |->
               Add(Get(elements[i], "y", PyInt(0)), Get(elements[i], "height", PyInt(50)))]]

\* the bounds and the canvas size
Bounds(elements) ==
    LET ext == Extents(elements)
        min_x == min(ext.xs)
        min_y == min(ext.ys)
        max_x == max(ext.ws)
        max_y == max(ext.hs)
    IN  [min_x |-> min_x, min_y |-> min_y, max_x |-> max_x, max_y |-> max_y,
         width  |-> Add(Sub(max_x, min_x), Add(pad, pad)),
         height |-> Add(Sub(max_y, min_y), Add(pad, pad))]

\* x, y = e.get('x', 0) - min_x + pad, e.get('y', 0) - min_y + pad
LocalXNoPad(e, b) == Sub(Get(e, "x", PyInt(0)), b.min_x)
LocalX(e, b) == Add(Sub(Get(e, "x", PyInt(0)), b.min_x), pad)
LocalY(e, b) == Add(Sub(Get(e, "y", PyInt(0)), b.min_y), pad)

\* txt.replace('\n', '</tspan><tspan x="{x}" dy="1.2em">')
ReplaceNewlines(txt, x) ==
    [i \in 1..Len(txt) |-> IF txt[i] = "\n" THEN [br |-> x] ELSE [ch |-> txt[i]]]

\* x2, y2 = pts[-1]
LastPointSecond(pts) == pts[2]
LastPoint(pts) == pts[Len(pts)]

\* the primitives one element appends to svgs: none or one
Primitive(e, b) ==
    LET x == LocalX(e, b)
        y == LocalY(e, b)
        w == Get(e, "width", PyInt(100))
        h == Get(e, "height", PyInt(50))
        stroke == Get(e, "strokeColor", "#000")
        fill == Get(e, "backgroundColor", "transparent")
        sw == Get(e, "strokeWidth", PyInt(1))
        t == Get(e, "type", "")
    IN  IF t = "rectangle" THEN
            << [tag |-> "rect", x |-> x, y |-> y, width |-> w, height |-> h,
                fill |-> fill, stroke |-> stroke, sw |-> sw, rx |-> 4] >>
        ELSE IF t = "ellipse" THEN
            << [tag |-> "ellipse", cx2 |-> AddHalf2(x, w), cy2 |-> AddHalf2(y, h),
                rx2 |-> Half2(w), ry2 |-> Half2(h),
                fill |-> fill, stroke |-> stroke, sw |-> sw] >>
        ELSE IF t \in {"arrow", "line"} THEN
            LET pts == Get(e, "points", << <<PyInt(0), PyInt(0)>>, <<PyInt(100), PyInt(0)>> >>)
            IN  IF Len(pts) >= 2 THEN
                    << [tag |-> "line",
                        x1 |-> Add(x, pts[1][1]), y1 |-> Add(y, pts[1][2]),
                        x2 |-> Add(x, LastPoint(pts)[1]), y2 |-> Add(y, LastPoint(pts)[2]),
                        stroke |-> stroke, sw |-> sw, marker |-> (t = "arrow")] >>
                ELSE << >>
        ELSE IF t = "text" THEN
            LET fs == Get(e, "fontSize", PyInt(16))
            IN  << [tag |-> "text", x |-> x, y |-> Add(y, fs), fs |-> fs,
                    fill |-> stroke, txt |-> ReplaceNewlines(Get(e, "text", << >>), x)] >>
        ELSE << >>

\* the loop over the elements, from element i on, svgs being what is appended so far
RECURSIVE RenderFromPrepend(_, _, _, _)
RenderFromPrepend(elements, i, b, svgs) ==
    IF i > Len(elements) THEN svgs
    ELSE IF IsDeleted(elements[i]) THEN RenderFromPrepend(elements, i + 1, b, svgs)
    ELSE RenderFromPrepend(elements, i + 1, b, Primitive(elements[i], b) \o svgs)

RECURSIVE RenderFrom(_, _, _, _)
RenderFrom(elements, i, b, svgs) ==
    IF i > Len(elements) THEN svgs
    ELSE IF IsDeleted(elements[i]) THEN RenderFrom(elements, i + 1, b, svgs)
    ELSE RenderFrom(elements, i + 1, b, svgs \o Primitive(elements[i], b))

excalidraw_to_svg(data) ==
    IF NoElements(data) THEN BlankSvg
    ELSE LET elements == Elements(data)
             b == Bounds(elements)
         IN  [width |-> b.width, height |-> b.height, defs |-> TRUE,
              body |-> << [tag |-> "bg"] >> \o RenderFrom(elements, 1, b, << >>)]

(***************************************************************************)
(* The documents                                                           *)
(***************************************************************************)
\* geometry of an element: any of x, y, width, height may be absent
Geoms ==
    { [type |-> "rectangle"],
      [type |-> "rectangle", x |-> PyInt(10), y |-> PyInt(10), width |-> PyInt(50), height |-> PyInt(20)],
      [type |-> "rectangle", x |-> PyInt(-5), y |-> PyInt(3), width |-> PyInt(-30), height |-> PyInt(0)],
      [type |-> "rectangle", x |-> PyFloat(3), y |-> PyFloat(7), width |-> PyFloat(50), height |-> PyFloat(21)],
      [type |-> "rectangle", x |-> PyFloat(-9), y |-> PyInt(2), width |-> PyInt(25), height |-> PyFloat(-13)] }

Deleted(e) == [k \in DOMAIN e \cup {"isDeleted"} |-> IF k = "isDeleted" THEN TRUE ELSE e[k]]
Typed(e, t) == [k \in DOMAIN e \cup {"type"} |-> IF k = "type" THEN t ELSE e[k]]
With(e, k0, val) == [k \in DOMAIN e \cup {k0} |-> IF k = k0 THEN val ELSE e[k]]

P0 == <<PyInt(0), PyInt(0)>>
P1 == <<PyInt(10), PyInt(0)>>
P2 == <<PyInt(20), PyInt(5)>>
PointLists == { << >>, <<P1>>, <<P1, P2>>, <<P0, P1, P2>>, <<P2, P0, P1>> }

LineBase == [x |-> PyInt(4), y |-> PyInt(-6)]

Boxes ==
    Geoms \cup { Deleted(g) : g \in Geoms }
          \cup { Typed(g, "ellipse") : g \in Geoms }
          \cup { With([type |-> "rectangle", x |-> PyInt(1), width |-> PyInt(7)], "isDeleted", FALSE) }

Lines ==
    { Typed(LineBase, t) : t \in {"line", "arrow"} }
      \cup { With(Typed(LineBase, t), "points", p) : t \in {"line", "arrow"}, p \in PointLists }
      \cup { Deleted(With(Typed(LineBase, "arrow"), "points", <<P0, P1, P2>>)) }

Texts ==
    { [type |-> "text", x |-> PyInt(2), y |-> PyInt(2)],
      [type |-> "text", x |-> PyInt(8), text |-> <<"a", "\n", "b">>, fontSize |-> PyInt(20),
       strokeColor |-> "#f00"] }

Others ==
    { [x |-> PyInt(-20), y |-> PyInt(60)],
      [type |-> "diamond", x |-> PyInt(0), y |-> PyInt(0), width |-> PyInt(200), height |-> PyInt(90)] }

ElementSet == Boxes \cup Lines \cup Texts \cup Others

RECURSIVE SeqsUpTo(_, _)
SeqsUpTo(S, n) ==
    IF n = 0 THEN { << >> }
    ELSE LET shorter == SeqsUpTo(S, n - 1)
         IN  shorter \cup { Append(s, e) : s \in shorter, e \in S }

Docs ==
    { [appState |-> "a"] } \cup { [elements |-> s] : s \in SeqsUpTo(ElementSet, MaxElems) }

(***************************************************************************)
(* svg_to_png, convert, main                                               *)
(***************************************************************************)
\* a path is the sequence of its pieces, ".png" being a piece of its own
Outputs ==
    { <<"out", ".png">>, <<"d", ".png", "/", "x", ".png">>, <<"out", ".jpg">> }

\* output.replace('.png', '.svg'): every occurrence is replaced
ReplacePng(path) == [i \in DOMAIN path |-> IF path[i] = ".png" THEN ".svg" ELSE path[i]]

\* what a file holds
Png == [kind |-> "png"]
SvgText(markup) == [kind |-> "svg", markup |-> markup]

\* open(path, 'w').write(content): the file is created or overwritten
Write(fs, path, content) == { f \in fs : f[1] # path } \cup { <<path, content>> }

IsAnyError(outcome) == outcome # "ok"

\* "except ImportError": the failures of the preferred rasterizer that svg_to_png handles
IsImportError(outcome) == outcome = "missing"

\* "if excalidraw_to_png_playwright(...)": the renderer returned a true value
RendererSucceeded(outcome) == outcome = "png"

ExitCodeOnFalse(r) == IF r = "False" THEN 0 ELSE 1

\* sys.exit(0 if convert(...) else 1); an uncaught exception ends the process with 1
ExitCode(r) == IF r = "True" THEN 0 ELSE 1

\* the documents the input file may hold
FileDocs ==
    { [appState |-> "a"],
      [elements |-> << [type |-> "rectangle", x |-> PyInt(10), y |-> PyInt(10),
                        width |-> PyInt(50), height |-> PyInt(20)] >>],
      [elements |-> << [type |-> "ellipse", x |-> PyInt(-5), isDeleted |-> TRUE],
                       [type |-> "arrow", x |-> PyInt(4), y |-> PyInt(-6),
                        points |-> <<P0, P1, P2>>] >>] }

\* what the surroundings do when a stage is run:
\*   load        open + json.load of the input: "ok" or "raise"
\*   doc         the document the input file holds
\*   playwright  the primary renderer: "png" (wrote the image, returned True),
\*               "none" (returned False), "raise" (raised an Exception)
\*   cairosvg    import cairosvg + svg2png: "ok", "missing" (ImportError),
\*               "error" (any other exception)
\*   svg_write   writing the .svg file: "ok" or "raise"
\*   inkscape    the inkscape command: "ok" or "fail"
Envs ==
    [load : {"ok", "raise"}, doc : FileDocs, playwright : {"png", "none", "raise"},
     cairosvg : {"ok", "missing", "error"}, svg_write : {"ok", "raise"},
     inkscape : {"ok", "fail"}]

Args == [install_deps : BOOLEAN, input_exists : BOOLEAN, output : Outputs]

VARIABLES pc, args, env, data, svg, files, calls, ret, status

vars == <<pc, args, env, data, svg, files, calls, ret, status>>

NoData == [unloaded |-> TRUE]
NoSvg == [width |-> PyInt(0), height |-> PyInt(0), defs |-> FALSE, body |-> << >>]

Init ==
    /\ pc = "main"
    /\ args \in Args
    /\ env \in Envs
    /\ data = NoData
    /\ svg = NoSvg
    /\ files = {}
    /\ calls = << >>
    /\ ret = "none"
    /\ status = -1

\* main: if args.install_deps: install_deps()
MainInstallDeps ==
    /\ pc = "main"
    /\ calls' = IF args.install_deps THEN Append(calls, "install_deps") ELSE calls
    /\ pc' = "check_input"
    /\ UNCHANGED <<args, env, data, svg, files, ret, status>>

\* main: the input is missing: sys.exit(1)
MainInputMissing ==
    /\ pc = "check_input"
    /\ ~args.input_exists
    /\ status' = 1
    /\ pc' = "exit"
    /\ UNCHANGED <<args, env, data, svg, files, calls, ret>>

\* main: convert(...) is entered
MainCallConvert ==
    /\ pc = "check_input"
    /\ args.input_exists
    /\ pc' = "load"
    /\ UNCHANGED <<args, env, data, svg, files, calls, ret, status>>

\* convert: with open(input_path) as f: data = json.load(f)
CvtLoad ==
    /\ pc = "load"
    /\ IF env.load = "ok"
       THEN data' = env.doc /\ pc' = "playwright" /\ UNCHANGED ret
       ELSE ret' = "raised" /\ pc' = "convert_end" /\ UNCHANGED data
    /\ UNCHANGED <<args, env, svg, files, calls, status>>

\* convert: try: if excalidraw_to_png_playwright(...): return True / except Exception
CvtPlaywright ==
    /\ pc = "playwright"
    /\ calls' = Append(calls, "playwright")
    /\ files' = IF env.playwright = "png" THEN Write(files, args.output, Png) ELSE files
    /\ IF RendererSucceeded(env.playwright)
       THEN ret' = "True" /\ pc' = "convert_end"
       ELSE pc' = "synth" /\ UNCHANGED ret
    /\ UNCHANGED <<args, env, data, svg, status>>

\* convert: svg = excalidraw_to_svg(data)
CvtSynthesize ==
    /\ pc = "synth"
    /\ calls' = Append(calls, "synth")
    /\ svg' = excalidraw_to_svg(data)
    /\ pc' = "svg_to_png"
    /\ UNCHANGED <<args, env, data, files, ret, status>>

\* svg_to_png: try: import cairosvg; cairosvg.svg2png(...); return True / except ImportError
SvgToPngCairo ==
    /\ pc = "svg_to_png"
    /\ calls' = Append(calls, "cairosvg")
    /\ IF env.cairosvg = "ok"
       THEN files' = Write(files, args.output, Png) /\ ret' = "True" /\ pc' = "convert_end"
       ELSE IF IsImportError(env.cairosvg)
       THEN pc' = "svg_fallback" /\ UNCHANGED <<files, ret>>
       ELSE ret' = "raised" /\ pc' = "convert_end" /\ UNCHANGED files
    /\ UNCHANGED <<args, env, data, svg, status>>

\* svg_to_png: svg_path = output.replace('.png', '.svg'); write the svg there
SvgToPngWriteSvg ==
    /\ pc = "svg_fallback"
    /\ IF env.svg_write = "ok"
       THEN /\ files' = Write(files, ReplacePng(args.output), SvgText(svg))
            /\ pc' = "inkscape"
            /\ UNCHANGED ret
       ELSE ret' = "raised" /\ pc' = "convert_end" /\ UNCHANGED files
    /\ UNCHANGED <<args, env, data, svg, calls, status>>

\* svg_to_png: try: subprocess.run(['inkscape', ...], check=True); return True
\* except: pass; return False
SvgToPngInkscape ==
    /\ pc = "inkscape"
    /\ calls' = Append(calls, "inkscape")
    /\ IF env.inkscape = "ok"
       THEN files' = Write(files, args.output, Png) /\ ret' = "True"
       ELSE ret' = "False" /\ UNCHANGED files
    /\ pc' = "convert_end"
    /\ UNCHANGED <<args, env, data, svg, status>>

\* main: sys.exit(0 if convert(...) else 1)
MainExit ==
    /\ pc = "convert_end"
    /\ status' = ExitCode(ret)
    /\ pc' = "exit"
    /\ UNCHANGED <<args, env, data, svg, files, calls, ret>>

Next ==
    \/ MainInstallDeps
    \/ MainInputMissing
    \/ MainCallConvert
    \/ CvtLoad
    \/ CvtPlaywright
    \/ CvtSynthesize
    \/ SvgToPngCairo
    \/ SvgToPngWriteSvg
    \/ SvgToPngInkscape
    \/ MainExit

Spec == Init /\ [][Next]_vars

(***************************************************************************)
(* excalidraw_to_svg applied to every document                             *)
(***************************************************************************)
InitSvg ==
    /\ pc = "svg_call"
    /\ args = [install_deps |-> FALSE, input_exists |-> TRUE, output |-> <<"out", ".png">>]
    /\ \E d \in Docs :
          /\ data = d
          /\ env = [load |-> "ok", doc |-> d, playwright |-> "none", cairosvg |-> "missing",
                    svg_write |-> "ok", inkscape |-> "fail"]
    /\ svg = NoSvg
    /\ files = {}
    /\ calls = << >>
    /\ ret = "none"
    /\ status = -1

Synthesize ==
    /\ pc = "svg_call"
    /\ svg' = excalidraw_to_svg(data)
    /\ pc' = "svg_ret"
    /\ UNCHANGED <<args, env, data, files, calls, ret, status>>

NextSvg == Synthesize

SpecSvg == InitSvg /\ [][NextSvg]_vars

(***************************************************************************)
(* Properties of excalidraw_to_svg (checked under SpecSvg)                 *)
(***************************************************************************)
SvgDone == pc = "svg_ret"
Els == IF "elements" \in DOMAIN data THEN data.elements ELSE << >>
NonEmpty == Len(Els) > 0
Idx == 1..Len(Els)

Has(e, k) == k \in DOMAIN e
XOf(e) == IF Has(e, "x") THEN e.x ELSE PyInt(0)
YOf(e) == IF Has(e, "y") THEN e.y ELSE PyInt(0)
WOf(e) == IF Has(e, "width") THEN e.width ELSE PyInt(100)
HOf(e) == IF Has(e, "height") THEN e.height ELSE PyInt(50)
KindOf(e) == IF Has(e, "type") THEN e.type ELSE "other"
PointsOf(e) ==
    IF Has(e, "points") THEN e.points
    ELSE << <<PyInt(0), PyInt(0)>>, <<PyInt(100), PyInt(0)>> >>
Gone(e) == Has(e, "isDeleted") /\ e.isDeleted

\* the element is drawn: not deleted, of a recognized kind, and a line or
\* arrow has two points at least
Drawn(e) ==
    /\ ~Gone(e)
    /\ KindOf(e) \in {"rectangle", "ellipse", "line", "arrow", "text"}
    /\ (KindOf(e) \in {"line", "arrow"} => Len(PointsOf(e)) >= 2)

\* the position in svg.body of the primitive of the drawn element i
Slot(i) == 1 + Cardinality({j \in 1..i : Drawn(Els[j])})

\* every number of the document is a Python int
AllInt ==
    \A i \in Idx : ~XOf(Els[i]).f /\ ~YOf(Els[i]).f /\ ~WOf(Els[i]).f /\ ~HOf(Els[i]).f

\* the bounding box, by its defining property
IsMinX(m) == (\E i \in Idx : XOf(Els[i]).v = m) /\ (\A i \in Idx : m <= XOf(Els[i]).v)
IsMinY(m) == (\E i \in Idx : YOf(Els[i]).v = m) /\ (\A i \in Idx : m <= YOf(Els[i]).v)
IsMaxX(m) ==
    /\ \E i \in Idx : Add(XOf(Els[i]), WOf(Els[i])).v = m
    /\ \A i \in Idx : Add(XOf(Els[i]), WOf(Els[i])).v <= m
IsMaxY(m) ==
    /\ \E i \in Idx : Add(YOf(Els[i]), HOf(Els[i])).v = m
    /\ \A i \in Idx : Add(YOf(Els[i]), HOf(Els[i])).v <= m
TheMinX == CHOOSE i \in Idx : IsMinX(XOf(Els[i]).v)
TheMinY == CHOOSE i \in Idx : IsMinY(YOf(Els[i]).v)
TheMaxX == CHOOSE i \in Idx : IsMaxX(Add(XOf(Els[i]), WOf(Els[i])).v)
TheMaxY == CHOOSE i \in Idx : IsMaxY(Add(YOf(Els[i]), HOf(Els[i])).v)
MinXNum == XOf(Els[TheMinX])
MinYNum == YOf(Els[TheMinY])
MaxXNum == Add(XOf(Els[TheMaxX]), WOf(Els[TheMaxX]))
MaxYNum == Add(YOf(Els[TheMaxY]), HOf(Els[TheMaxY]))

\* localX, localY of element i as the claims define them
LocX(i) == Add(Sub(XOf(Els[i]), MinXNum), PyInt(40))
LocY(i) == Add(Sub(YOf(Els[i]), MinYNum), PyInt(40))

\* the primitive of the drawn element i carries its local position
PlacedAt(p, i) ==
    CASE p.tag = "rect" -> p.x.v = LocX(i).v /\ p.y.v = LocY(i).v
      [] p.tag = "text" -> p.x.v = LocX(i).v
      [] p.tag = "line" -> p.x1.v = Add(LocX(i), PointsOf(Els[i])[1][1]).v
                           /\ p.y1.v = Add(LocY(i), PointsOf(Els[i])[1][2]).v
      [] OTHER -> TRUE

SingleRect == Len(Els) = 1 /\ KindOf(Els[1]) = "rectangle" /\ ~Gone(Els[1])

\* C6 as stated: the canvas is (maxX - minX + 80, maxY - minY + 80), every drawn
\* element is placed at (x - minX + 40, y - minY + 40), and a single rectangle
\* of width w and height h gets the canvas (w+80, h+80) with the rectangle at (40,40).
C6_CanvasAsStated ==
    (SvgDone /\ NonEmpty) =>
        /\ svg.width.v = Add(Sub(MaxXNum, MinXNum), PyInt(80)).v
        /\ svg.height.v = Add(Sub(MaxYNum, MinYNum), PyInt(80)).v
        /\ \A i \in Idx : Drawn(Els[i]) => PlacedAt(svg.body[Slot(i)], i)
        /\ SingleRect =>
             /\ svg.width.v = Add(WOf(Els[1]), PyInt(80)).v
             /\ svg.height.v = Add(HOf(Els[1]), PyInt(80)).v
             /\ svg.body[2].x.v = 40 /\ svg.body[2].y.v = 40

\* C6 amended: the canvas is (maxX - minX + 80, maxY - minY + 80) in the
\* arithmetic of the program, every drawn element is placed at
\* (x - minX + 40, y - minY + 40), a single rectangle is placed at (40,40), and
\* its canvas is (w+80, h+80) when its numbers are integers.
C6_Canvas ==
    (SvgDone /\ NonEmpty) =>
        /\ svg.width.v = Add(Sub(MaxXNum, MinXNum), PyInt(80)).v
        /\ svg.height.v = Add(Sub(MaxYNum, MinYNum), PyInt(80)).v
        /\ \A i \in Idx : Drawn(Els[i]) => PlacedAt(svg.body[Slot(i)], i)
        /\ SingleRect =>
             /\ svg.body[2].x.v = 40 /\ svg.body[2].y.v = 40
             /\ AllInt => /\ svg.width.v = WOf(Els[1]).v + 80
                          /\ svg.height.v = HOf(Els[1]).v + 80

\* the spec's example: one rectangle {x:10, y:10, width:50, height:20}
C6_Witness ==
    /\ SvgDone /\ SingleRect
    /\ Els[1] = [type |-> "rectangle", x |-> PyInt(10), y |-> PyInt(10),
                 width |-> PyInt(50), height |-> PyInt(20)]
    /\ svg.width.v = 130 /\ svg.height.v = 100
    /\ svg.body[2].x.v = 40 /\ svg.body[2].y.v = 40

\* the code's own local coordinates of element i (computed for drawn elements;
\* the same expression gives them for deleted ones)
CodeLocX(i) == LocalX(Els[i], Bounds(Els)).v
CodeLocY(i) == LocalY(Els[i], Bounds(Els)).v

\* C10 as stated: for every element of a non-empty list, deleted or not,
\* localX >= 40, localY >= 40, localX + width <= canvasWidth - 40 and
\* localY + height <= canvasHeight - 40.
C10_PaddingAsStated ==
    (SvgDone /\ NonEmpty) =>
        \A i \in Idx :
            /\ CodeLocX(i) >= 40
            /\ CodeLocY(i) >= 40
            /\ CodeLocX(i) + WOf(Els[i]).v <= svg.width.v - 40
            /\ CodeLocY(i) + HOf(Els[i]).v <= svg.height.v - 40

\* C10 amended: localX >= 40 and localY >= 40 for every element; the far edge
\* stays within the opposite padding line when the document's numbers are
\* integers (float rounding can push it past the line).
C10_Padding ==
    (SvgDone /\ NonEmpty) =>
        \A i \in Idx :
            /\ CodeLocX(i) >= 40
            /\ CodeLocY(i) >= 40
            /\ Drawn(Els[i]) /\ KindOf(Els[i]) = "rectangle" =>
                   svg.body[Slot(i)].x.v >= 40 /\ svg.body[Slot(i)].y.v >= 40
            /\ AllInt =>
                   /\ CodeLocX(i) + WOf(Els[i]).v <= svg.width.v - 40
                   /\ CodeLocY(i) + HOf(Els[i]).v <= svg.height.v - 40

\* two elements, one deleted, one of negative width, one touching the far line
C10_Witness ==
    /\ SvgDone /\ AllInt /\ Len(Els) = 2
    /\ \E i \in Idx : Gone(Els[i])
    /\ \E i \in Idx : WOf(Els[i]).v < 0
    /\ \E i \in Idx : CodeLocX(i) > 40 /\ CodeLocX(i) + WOf(Els[i]).v = svg.width.v - 40

\* the same document with every isDeleted flag dropped
Strip(e) == [k \in DOMAIN e \ {"isDeleted"} |-> e[k]]
Undeleted == [elements |-> [i \in Idx |-> Strip(Els[i])]]
SlotUndeleted(i) == 1 + Cardinality({j \in 1..i : Drawn(Strip(Els[j]))})

\* C5: deleted elements count in the bounding box (canvas size and the other
\* elements' local coordinates are what they would be with nothing deleted),
\* and no primitive is emitted for a deleted element.
C5_DeletedInBounds ==
    (SvgDone /\ NonEmpty) =>
        LET u == excalidraw_to_svg(Undeleted)
        IN  /\ svg.width = u.width
            /\ svg.height = u.height
            /\ \A i \in Idx : Drawn(Els[i]) => svg.body[Slot(i)] = u.body[SlotUndeleted(i)]
            /\ Len(svg.body) - 1 = Cardinality({i \in Idx : Drawn(Els[i])})
            /\ Len(svg.body) - 1 <= Cardinality({i \in Idx : ~Gone(Els[i])})

\* a deleted element left of and above the drawn one moves it off (40,40)
C5_Witness ==
    /\ SvgDone /\ Len(Els) = 2 /\ Len(svg.body) = 2
    /\ \E i, j \in Idx :
          /\ Gone(Els[i]) /\ Drawn(Els[j]) /\ KindOf(Els[j]) = "rectangle"
          /\ XOf(Els[i]).v < XOf(Els[j]).v
          /\ svg.body[2].x.v = XOf(Els[j]).v - XOf(Els[i]).v + 40
          /\ svg.body[2].x.v > 40

Blank400x300 ==
    [width |-> PyInt(400), height |-> PyInt(300), defs |-> FALSE,
     body |-> << [tag |-> "bg"] >>]

\* C7: an empty or absent element sequence gives exactly the fixed 400x300
\* white canvas without primitives; a non-empty one, even all deleted, gives
\* the canvas derived from the bounds.
C7_BlankCanvas ==
    SvgDone =>
        /\ Len(Els) = 0 => svg = Blank400x300
        /\ NonEmpty =>
             /\ svg # Blank400x300
             /\ svg.defs
             /\ svg.width.v = Add(Sub(MaxXNum, MinXNum), PyInt(80)).v
             /\ svg.height.v = Add(Sub(MaxYNum, MinYNum), PyInt(80)).v

C7_Witness ==
    /\ SvgDone /\ ~Has(data, "elements")
    /\ svg.width.v = 400 /\ svg.height.v = 300 /\ Len(svg.body) = 1

\* a line or arrow that is not deleted and has two points or more
Segment(e) == ~Gone(e) /\ KindOf(e) \in {"line", "arrow"} /\ Len(PointsOf(e)) >= 2

\* the same document with the intermediate points of every line and arrow dropped
EndsOnly(e) ==
    IF Has(e, "points") /\ Len(e.points) >= 2
    THEN [k \in DOMAIN e |-> IF k = "points" THEN << e.points[1], e.points[Len(e.points)] >>
                             ELSE e[k]]
    ELSE e
WithEndsOnly == [elements |-> [i \in Idx |-> EndsOnly(Els[i])]]

\* C8: a live line or arrow of n >= 2 points emits exactly one segment, from
\* local + first point to local + last point; the points in between change
\* nothing; the marker is attached exactly for an arrow.
C8_FirstToLast ==
    (SvgDone /\ NonEmpty) =>
        /\ \A i \in Idx : Segment(Els[i]) =>
              LET p == svg.body[Slot(i)]
                  pts == PointsOf(Els[i])
              IN  /\ p.tag = "line"
                  /\ p.x1 = Add(LocX(i), pts[1][1])
                  /\ p.y1 = Add(LocY(i), pts[1][2])
                  /\ p.x2 = Add(LocX(i), pts[Len(pts)][1])
                  /\ p.y2 = Add(LocY(i), pts[Len(pts)][2])
                  /\ p.marker = (KindOf(Els[i]) = "arrow")
        /\ Cardinality({k \in 1..Len(svg.body) : svg.body[k].tag = "line"})
             = Cardinality({i \in Idx : Segment(Els[i])})
        /\ svg = excalidraw_to_svg(WithEndsOnly)

\* an arrow of three points whose middle point differs from both ends
C8_Witness ==
    /\ SvgDone
    /\ \E i \in Idx :
          /\ Segment(Els[i]) /\ KindOf(Els[i]) = "arrow" /\ Len(PointsOf(Els[i])) = 3
          /\ PointsOf(Els[i])[2] # PointsOf(Els[i])[3]
          /\ PointsOf(Els[i])[2] # PointsOf(Els[i])[1]
          /\ svg.body[Slot(i)].marker
          /\ svg.body[Slot(i)].x2.v = LocX(i).v + PointsOf(Els[i])[3][1].v

TagOf(e) ==
    CASE KindOf(e) = "rectangle" -> "rect"
      [] KindOf(e) = "ellipse" -> "ellipse"
      [] KindOf(e) \in {"line", "arrow"} -> "line"
      [] KindOf(e) = "text" -> "text"
      [] OTHER -> "none"

\* C9: the background comes first, then one primitive per drawn element in the
\* order of the elements; elements of any other kind emit nothing.
C9_InputOrder ==
    (SvgDone /\ NonEmpty) =>
        /\ svg.body[1] = [tag |-> "bg"]
        /\ Len(svg.body) = 1 + Cardinality({i \in Idx : Drawn(Els[i])})
        /\ \A i \in Idx : Drawn(Els[i]) =>
              /\ svg.body[Slot(i)].tag = TagOf(Els[i])
              /\ << svg.body[Slot(i)] >> = Primitive(Els[i], Bounds(Els))
        /\ \A i, j \in Idx : (i < j /\ Drawn(Els[i]) /\ Drawn(Els[j])) => Slot(i) < Slot(j)

\* two drawn elements of different kinds, in their order
C9_Witness ==
    /\ SvgDone /\ Len(Els) = 2 /\ Len(svg.body) = 3
    /\ KindOf(Els[1]) = "text" /\ KindOf(Els[2]) = "rectangle"
    /\ svg.body[2].tag = "text" /\ svg.body[3].tag = "rect"

(***************************************************************************)
(* Properties of svg_to_png, convert and main (checked under Spec)         *)
(***************************************************************************)
Called(stage) == \E k \in 1..Len(calls) : calls[k] = stage
Pos(stage) == CHOOSE k \in 1..Len(calls) : calls[k] = stage
Before(s1, s2) == Called(s1) /\ Called(s2) /\ Pos(s1) < Pos(s2)
ConvertOver == pc \in {"convert_end", "exit"}
RenderingStages == {"playwright", "synth", "cairosvg", "inkscape"}

\* C1: convert never raises: whatever each stage does, it returns a boolean.
C1_NeverRaises == ConvertOver => ret \in {"True", "False"}

\* the output path with its .png extension replaced by .svg
SwapExtension(path) ==
    [i \in DOMAIN path |-> IF i = Len(path) /\ path[i] = ".png" THEN ".svg" ELSE path[i]]

\* C2: when the primary renderer fails, the preferred rasterizer fails for any
\* reason and the command-line rasterizer fails, convert returns False and the
\* synthesized SVG text is in the file at the output path with .png swapped
\* for .svg.
C2_SvgLeftBehind ==
    ( /\ pc = "exit" /\ args.input_exists
      /\ env.load = "ok" /\ env.svg_write = "ok"
      /\ env.playwright # "png" /\ env.cairosvg # "ok" /\ env.inkscape # "ok"
      /\ args.output[Len(args.output)] = ".png" )
    => /\ ret = "False"
       /\ <<SwapExtension(args.output), SvgText(excalidraw_to_svg(env.doc))>> \in files

\* C3: the synthesizer and the rasterizers run only after the primary renderer
\* failed; when it succeeds convert returns True at once and runs none of
\* them; the command-line rasterizer runs only after the preferred one was
\* found unavailable.
C3_FallbackChain ==
    /\ \A st \in {"synth", "cairosvg", "inkscape"} :
          Called(st) => Before("playwright", st) /\ env.playwright \in {"none", "raise"}
    /\ Called("cairosvg") => Before("synth", "cairosvg")
    /\ (Called("playwright") /\ env.playwright = "png") =>
          /\ ConvertOver /\ ret = "True"
          /\ calls[Len(calls)] = "playwright"
          /\ svg = NoSvg
    /\ Called("inkscape") => Before("cairosvg", "inkscape") /\ env.cairosvg = "missing"
    /\ \A k1, k2 \in 1..Len(calls) : calls[k1] = calls[k2] => k1 = k2

\* the whole chain has run, down to the command-line rasterizer
C3_Witness ==
    /\ pc = "exit"
    /\ Before("playwright", "synth") /\ Before("synth", "cairosvg")
    /\ Before("cairosvg", "inkscape")
    /\ env.playwright = "raise" /\ env.cairosvg = "missing"

\* C4: with a missing input, main exits with 1 and runs no rendering stage and
\* nothing else, with or without --install-deps; otherwise the exit status is 0
\* exactly when convert returned True, and 1 otherwise.
C4_ExitStatus ==
    /\ ~args.input_exists =>
          /\ \A st \in RenderingStages : ~Called(st)
          /\ pc \in {"main", "check_input", "exit"}
          /\ data = NoData /\ svg = NoSvg /\ files = {} /\ ret = "none"
          /\ pc = "exit" => status = 1
    /\ (args.input_exists /\ pc = "exit") =>
          /\ status \in {0, 1}
          /\ status = 0 <=> ret = "True"
    /\ pc # "exit" => status = -1

\* a missing input with --install-deps given
C4_Witness ==
    /\ pc = "exit" /\ ~args.input_exists /\ args.install_deps
    /\ calls = << "install_deps" >> /\ status = 1

====
